---- MODULE Spec2Model ----
(***************************************************************************)
(* The practice session of the History Bee reader (src/src/js/game.js):    *)
(* the character-by-character reveal of a question, driven by a repeating  *)
(* browser timer, with pause, resume, buzz-in, answer submission and       *)
(* answer reveal, over the shared `state` object.                          *)
(*                                                                         *)
(* Strings are sequences of one-character strings.  Four longer strings    *)
(* are kept as single elements because the code never looks inside them:   *)
(* the cursor marker, the buzz marker and the two entities the browser     *)
(* writes for a literal '<' and '>' when innerHTML is read back.           *)
(*                                                                         *)
(* Date.now() and the speed slider are inputs of every firing of the      *)
(* timer: a firing draws `elapsed`, the outcome of the comparison          *)
(* now - lastCharTime >= currentSpeed, which is all the code does with     *)
(* them.                                                                   *)
(*                                                                         *)
(* The answer matcher (normalizeAnswer, levenshteinDistance,               *)
(* calculateSimilarity, extractAcceptableAnswers and the judgement of      *)
(* checkAnswer) works on the same character sequences; each regular        *)
(* expression is an operator that scans the sequence as the expression     *)
(* does.  The session (Spec) judges the answers typed to it with the       *)
(* matcher; NormalizeSpec, SimilaritySpec, ExtractSpec and CheckSpec       *)
(* follow single calls of the matcher's functions over bounded arguments.  *)
(* alert() is modal: while its box is open no handler and no timer runs.   *)
(*                                                                         *)
(* RevealSpec is the session of a user who only starts, pauses and         *)
(* resumes, with the timer fired fairly.  LevelSpec follows single calls   *)
(* of getXPForLevel and getLevelFromXP (src/src/js/xpSystem.js).           *)
(* AccountSpec is a verified user's addToHistory and loadUserHistory       *)
(* (src/src/js/history.js) with the updatePointsAndLeaderboard they reach, *)
(* each async function a task that stands at one of its awaits;            *)
(* PointsSpec follows calls of updatePointsAndLeaderboard alone.           *)
(***************************************************************************)
EXTENDS Integers, Sequences, FiniteSets, TLC

\* ---------------------------------------------------------------- bounds
MaxPracticed == 2       \* questions started in one behaviour
MaxHistory == 2         \* history entries recorded in one behaviour
MaxTimers == 3          \* interval handles the browser can hand out
MaxMarkers == 1         \* buzz markers the sink can hold
MaxAnswerLen == 3       \* characters of an argument of normalizeAnswer
MaxWordLen == 3         \* characters of an argument of calculateSimilarity
MaxPieces == 3          \* pieces of an argument of extractAcceptableAnswers
MaxTypedLen == 2        \* characters of an answer typed to checkAnswer
MaxFieldPieces == 2     \* pieces of an answer field judged by checkAnswer
MaxAnswers == 2         \* addToHistory calls of a verified user in one behaviour
MaxXp == 250            \* every XP from 0 to MaxXp is an argument of getLevelFromXP

\* ------------------------------------------------------------- constants
NoQuestion == 0         \* state.currentQuestion = null
NoTimer == 0            \* state.streamingInterval = null

CURSOR == "<span class=\"cursor\"></span>"
BUZZ == "<span class=\"buzz-marker\">(#)</span>"
LT == "&lt;"
GT == "&gt;"

StartB == <<"<", "b", ">">>
EndB == << "<", "/", "b", ">" >>

NoAlert == ""
EnterAnAnswer == "Please enter an answer!"
NoQuestions == "No questions available in this category!"

\* What the user can have typed when the answer is submitted, and the
\* percentages the tolerance slider can have stored.
TypedAnswers == { << >>, << " " >>, << "a", "b" >>, << " ", "e", "f" >> }
Tolerances == { 80, 99 }

\* #answerText: the placeholder, a judged answer, or the answer of a skipped
\* question.
Placeholder == [shown |-> "placeholder"]
Judged(typed, isCorrect, field) ==
    [shown |-> "judged", userAnswer |-> typed, isCorrect |-> isCorrect,
     correctAnswer |-> field]
Skipped(field) == [shown |-> "answer", correctAnswer |-> field]

\* The question set: a text with a balanced tag pair and a text with an
\* unterminated '<'.
QuestionBank ==
    << [id |-> "P1", question |-> <<"1">> \o StartB \o <<"2">> \o EndB,
        answer |-> << "<", "s", "t", "r", "o", "n", "g", ">", "A", "b",
                      "<", "/", "s", "t", "r", "o", "n", "g", ">" >>],
       [id |-> "Q3", question |-> <<"1", "<", "2">>,
        answer |-> << "c", "d", " ", "(", "a", "c", "c", "e", "p", "t", " ",
                      "e", "f", ")" >>] >>

QuestionIds == 1..Len(QuestionBank)
Text(q) == QuestionBank[q].question
Answer(q) == QuestionBank[q].answer
TimerIds == 1..MaxTimers

VARIABLES
    currentQuestion,    \* state.currentQuestion: NoQuestion or an index of QuestionBank
    streamingInterval,  \* state.streamingInterval: NoTimer or an interval handle
    isPaused,           \* state.isPaused
    currentCharIndex,   \* state.currentCharIndex (0-based, as in the code)
    currentSection,     \* state.currentSection
    answerInputShown,   \* state.answerInputShown
    questionsPracticed, \* state.questionsPracticed
    questionHistory,    \* state.questionHistory
    sessionHistory,     \* state.sessionHistory
    timers,             \* the browser's live intervals: handle -> closure
    sink,               \* #questionText.innerHTML, as the getter returns it
    inputSections,      \* number of #answerInputSection elements in the page
    pauseHidden,        \* #pauseButton carries class 'hidden'
    startHidden,        \* #startButton carries class 'hidden'
    callbacks,          \* times the current reveal's completion callback ran
    completed,          \* the current reveal's tick reached the end of the text
    interrupted,        \* the current reveal was interrupted by a buzz-in
    stopped,            \* the current reveal was stopped by a judgement or a skip
    prior,              \* the current reveal was started while one was Revealing or Paused
    answerText,         \* what #answerText shows
    alert,              \* the message of the open alert() box, or NoAlert
    userAnswer,         \* a call of the matcher: the user's answer
    correctAnswer,      \* a call of the matcher: the answer field
    tolerance,          \* a call of the matcher: localStorage 'answerTolerance'
    returned,           \* a call of a pure function: what it returned
    xp,                 \* a call of getLevelFromXP: its argument
    level,              \* a call of getXPForLevel: its argument
    currentUser,        \* state.currentUser: "none" or "verified" (emailVerified)
    userProfile,        \* state.userProfile: NoProfile or the profile object
    remoteProfile,      \* the Firestore document users/<uid>/profile/data
    leaderboards,       \* the user's Firestore ranking document of each period
    remoteHistory,      \* the Firestore collection users/<uid>/history
    tasks,              \* the addToHistory calls of a verified user, each at its await
    load,               \* the loadUserHistory call, at its await
    pointsCalls         \* isCorrect of each updatePointsAndLeaderboard call, in order

sessionVars == << currentQuestion, streamingInterval, isPaused, currentCharIndex,
                  currentSection, answerInputShown, questionsPracticed, timers,
                  sink, inputSections, pauseHidden, startHidden >>
historyVars == << questionHistory, sessionHistory >>
ghostVars == << callbacks, completed, interrupted, stopped, prior >>
answerVars == << answerText, alert >>
matchVars == << userAnswer, correctAnswer, tolerance, returned >>

gameVars == << currentQuestion, streamingInterval, isPaused, currentCharIndex,
               currentSection, answerInputShown, questionsPracticed,
               questionHistory, sessionHistory, timers, sink, inputSections,
               pauseHidden, startHidden, callbacks, completed, interrupted,
               stopped, prior, answerText, alert >>

accountVars == << currentUser, userProfile, remoteProfile, leaderboards,
                 remoteHistory, tasks, load, pointsCalls >>

vars == << gameVars, matchVars, xp, level, accountVars >>

\* ------------------------------------------------------ string helpers
\* text.indexOf(ch, from): 0-based position of the first ch at or after
\* from, or -1.
IndexOf(text, ch, from) ==
    LET hits == { i \in from..(Len(text) - 1) : text[i + 1] = ch }
    IN  IF hits = {} THEN -1
        ELSE CHOOSE i \in hits : \A j \in hits : i <= j

\* text.substring(a, b) for 0 <= a <= b <= text.length.
Substring(text, a, b) == SubSeq(text, a + 1, b)

IsPrefix(p, s) == Len(p) <= Len(s) /\ SubSeq(s, 1, Len(p)) = p
Drop(s, n) == SubSeq(s, n + 1, Len(s))

RECURSIVE Repeat(_, _)
Repeat(s, n) == IF n = 0 THEN << >> ELSE s \o Repeat(s, n - 1)

\* What element.innerHTML returns after element.innerHTML = s: the browser
\* parses s as an HTML fragment and the getter serialises the tree.  For
\* the strings of this model (characters, <b>, </b>, the two marker spans):
\* an open <b> is closed at the end of its parent, a </b> with no open <b>
\* is dropped, and a '<' or '>' that is text comes back as an entity.
RECURSIVE Serialize(_, _)
Serialize(s, open) ==
    IF s = << >> THEN Repeat(EndB, open)
    ELSE IF IsPrefix(StartB, s) THEN StartB \o Serialize(Drop(s, 3), open + 1)
    ELSE IF IsPrefix(EndB, s)
         THEN IF open > 0 THEN EndB \o Serialize(Drop(s, 4), open - 1)
              ELSE Serialize(Drop(s, 4), open)
    ELSE IF Head(s) = "<" THEN <<LT>> \o Serialize(Tail(s), open)
    ELSE IF Head(s) = ">" THEN <<GT>> \o Serialize(Tail(s), open)
    ELSE <<Head(s)>> \o Serialize(Tail(s), open)

SetInnerHTML(s) == Serialize(s, 0)

\* removeCursor(element)
RemoveCursor(s) == SetInnerHTML(SelectSeq(s, LAMBDA c : c # CURSOR))

\* ------------------------------------------------------- the matcher
\* Characters.  \w of a JavaScript regular expression is a letter, a digit
\* or '_'; \s is, of the characters used here, the space.
Lower == << "a", "b", "c", "d", "e", "f", "g", "h", "i", "j", "k", "l", "m",
            "n", "o", "p", "q", "r", "s", "t", "u", "v", "w", "x", "y", "z" >>
Upper == << "A", "B", "C", "D", "E", "F", "G", "H", "I", "J", "K", "L", "M",
            "N", "O", "P", "Q", "R", "S", "T", "U", "V", "W", "X", "Y", "Z" >>
Digits == { "0", "1", "2", "3", "4", "5", "6", "7", "8", "9" }

IsWordChar(c) ==
    \/ \E i \in 1..26 : c = Lower[i] \/ c = Upper[i]
    \/ c \in Digits
    \/ c = "_"

IsSpace(c) == c = " "

LowerOf(c) ==
    IF \E i \in 1..26 : c = Upper[i]
    THEN Lower[CHOOSE i \in 1..26 : c = Upper[i]]
    ELSE c

\* s.toLowerCase()
ToLowerCase(s) == IF s = << >> THEN << >> ELSE [i \in 1..Len(s) |-> LowerOf(s[i])]

\* s starts with w, compared as a regular expression with the i flag does
StartsWithIgnoreCase(s, w) ==
    Len(w) <= Len(s) /\ ToLowerCase(SubSeq(s, 1, Len(w))) = ToLowerCase(w)

\* a.includes(b)
Includes(a, b) ==
    \E i \in 0..(Len(a) - Len(b)) : SubSeq(a, i + 1, i + Len(b)) = b

\* Faulty variant of Trim: the value is used as typed.
Trim_Missing(s) == s

\* s.trim()
RECURSIVE TrimStart(_)
TrimStart(s) ==
    IF s # << >> /\ IsSpace(Head(s)) THEN TrimStart(Tail(s)) ELSE s

RECURSIVE TrimEnd(_)
TrimEnd(s) ==
    IF s # << >> /\ IsSpace(s[Len(s)]) THEN TrimEnd(SubSeq(s, 1, Len(s) - 1)) ELSE s

Trim(s) == TrimEnd(TrimStart(s))

\* s.replace(/<[^>]*>/g, ''): a '<' and everything up to the first '>' after
\* it is removed; a '<' with no '>' after it stays.
RECURSIVE StripTags(_)
StripTags(s) ==
    IF s = << >> THEN << >>
    ELSE IF Head(s) = "<" /\ IndexOf(s, ">", 0) # -1
    THEN StripTags(Drop(s, IndexOf(s, ">", 0) + 1))
    ELSE << Head(s) >> \o StripTags(Tail(s))

\* The words of /\b(the|a|an|of|or|and|in|on|at|to)\b/g.
StopWords ==
    { << "t", "h", "e" >>, << "a" >>, << "a", "n" >>, << "o", "f" >>,
      << "o", "r" >>, << "a", "n", "d" >>, << "i", "n" >>, << "o", "n" >>,
      << "a", "t" >>, << "t", "o" >> }

\* The length of the run of word characters s starts with.
RECURSIVE WordRun(_)
WordRun(s) ==
    IF s # << >> /\ IsWordChar(Head(s)) THEN 1 + WordRun(Tail(s)) ELSE 0

\* s.replace(/\b(the|...|to)\b/g, ''): with a word boundary on both sides,
\* a match is a whole run of word characters that is one of the words.
RECURSIVE RemoveStopWords(_)
RemoveStopWords(s) ==
    IF s = << >> THEN << >>
    ELSE IF IsWordChar(Head(s))
    THEN LET run == SubSeq(s, 1, WordRun(s))
         IN  (IF run \in StopWords THEN << >> ELSE run)
                 \o RemoveStopWords(Drop(s, WordRun(s)))
    ELSE << Head(s) >> \o RemoveStopWords(Tail(s))

\* s.replace(/[^\w\s]/g, '')
RemovePunctuation(s) == SelectSeq(s, LAMBDA c : IsWordChar(c) \/ IsSpace(c))

\* s.replace(/\s+/g, ' ')
RECURSIVE CollapseSpaces(_)
CollapseSpaces(s) ==
    IF s = << >> THEN << >>
    ELSE IF IsSpace(Head(s))
    THEN << " " >> \o CollapseSpaces(TrimStart(s))
    ELSE << Head(s) >> \o CollapseSpaces(Tail(s))

\* normalizeAnswer(answer)
normalizeAnswer(answer) ==
    CollapseSpaces(Trim(RemovePunctuation(RemoveStopWords(
        ToLowerCase(StripTags(answer))))))

Min3(x, y, z) ==
    IF x <= y /\ x <= z THEN x ELSE IF y <= z THEN y ELSE z

\* levenshteinDistance(a, b): the matrix of lines 175-195, filled row by
\* row; row i is for the first i characters of b, its cell j for the first j
\* characters of a.  A row is a sequence, so cell j is its element j + 1.
\* Faulty variant of FillRow: the cell above and to the left is left out of
\* the minimum, so a substitution costs an insertion and a deletion.
RECURSIVE FillRow_NoSubstitution(_, _, _, _)
FillRow_NoSubstitution(above, a, ch, row) ==
    IF Len(row) = Len(a) + 1 THEN row
    ELSE LET j == Len(row)
             cell == IF ch = a[j] THEN above[j]
                     ELSE IF row[j] <= above[j + 1] THEN row[j] + 1
                     ELSE above[j + 1] + 1
         IN  FillRow_NoSubstitution(above, a, ch, Append(row, cell))

RECURSIVE FillRow(_, _, _, _)
FillRow(above, a, ch, row) ==
    IF Len(row) = Len(a) + 1 THEN row
    ELSE LET j == Len(row)
             cell == IF ch = a[j] THEN above[j]
                     ELSE Min3(above[j] + 1, row[j] + 1, above[j + 1] + 1)
         IN  FillRow(above, a, ch, Append(row, cell))

\* The rows from row i on, above being row i - 1; the result is the last
\* row.  (A row is never empty; the test on it makes the evaluation finish
\* one row before the next is begun.)
RECURSIVE FillMatrix(_, _, _, _)
FillMatrix(a, b, i, above) ==
    IF i > Len(b) THEN above
    ELSE LET row == FillRow(above, a, b[i], << i >>)
         IN  IF Len(row) > 0 THEN FillMatrix(a, b, i + 1, row) ELSE row

levenshteinDistance(a, b) ==
    IF Len(a) = 0 THEN Len(b)
    ELSE IF Len(b) = 0 THEN Len(a)
    ELSE FillMatrix(a, b, 1, [j \in 1..(Len(a) + 1) |-> j - 1])[Len(a) + 1]

\* calculateSimilarity(a, b).  The number 1 - distance/max is kept as the
\* fraction << max - distance, max >>, 1 as << 1, 1 >> and 0 as << 0, 1 >>.
calculateSimilarity(a, b) ==
    IF a = b THEN << 1, 1 >>
    ELSE IF Len(a) = 0 \/ Len(b) = 0 THEN << 0, 1 >>
    ELSE LET longest == IF Len(a) >= Len(b) THEN Len(a) ELSE Len(b)
         IN  << longest - levenshteinDistance(a, b), longest >>

\* similarity >= tolerance, with tolerance = parseInt(percent) / 100.  The
\* code compares doubles; for the percentages and the lengths of this model
\* the doubles compare as the fractions do.
\* Faulty variant of AtLeast: the comparison is strict.
AtLeast_Strict(similarity, percent) == similarity[1] * 100 > percent * similarity[2]

AtLeast(similarity, percent) == similarity[1] * 100 >= percent * similarity[2]

StrongOpen == << "<", "s", "t", "r", "o", "n", "g", ">" >>
StrongClose == << "<", "/", "s", "t", "r", "o", "n", "g", ">" >>
AcceptWord == << "a", "c", "c", "e", "p", "t" >>

\* The length of the match of /<strong>([^<]+)<\/strong>/i at the start of
\* s, or 0: the opening tag, one or more characters up to the next '<', and
\* the closing tag there.
StrongMatchLen(s) ==
    IF ~StartsWithIgnoreCase(s, StrongOpen) THEN 0
    ELSE LET rest == Drop(s, Len(StrongOpen))
             k == IndexOf(rest, "<", 0)
         IN  IF k >= 1 /\ StartsWithIgnoreCase(Drop(rest, k), StrongClose)
             THEN Len(StrongOpen) + k + Len(StrongClose)
             ELSE 0

\* text.match(/<strong>([^<]+)<\/strong>/gi) || []
RECURSIVE StrongMatches(_)
StrongMatches(s) ==
    IF s = << >> THEN << >>
    ELSE IF StrongMatchLen(s) > 0
    THEN << SubSeq(s, 1, StrongMatchLen(s)) >> \o StrongMatches(Drop(s, StrongMatchLen(s)))
    ELSE StrongMatches(Tail(s))

\* match.replace(/<\/?strong>/gi, '')
RECURSIVE RemoveStrongTags(_)
RemoveStrongTags(s) ==
    IF s = << >> THEN << >>
    ELSE IF StartsWithIgnoreCase(s, StrongOpen)
    THEN RemoveStrongTags(Drop(s, Len(StrongOpen)))
    ELSE IF StartsWithIgnoreCase(s, StrongClose)
    THEN RemoveStrongTags(Drop(s, Len(StrongClose)))
    ELSE << Head(s) >> \o RemoveStrongTags(Tail(s))

\* The position (1-based) of the first ';' or ')' of s after its first n
\* characters, or Len(s) + 1.
ClauseEnd(s, n) ==
    LET stops == { i \in (n + 1)..Len(s) : s[i] = ";" \/ s[i] = ")" }
    IN  IF stops = {} THEN Len(s) + 1
        ELSE CHOOSE i \in stops : \A j \in stops : i <= j

\* The length of the match of /accept\s+([^;)]+)/i at the start of s, or 0:
\* the word, one or more spaces and one or more characters other than ';'
\* and ')'; the match runs up to the first ';' or ')' or to the end.
AcceptMatchLen(s) ==
    IF /\ StartsWithIgnoreCase(s, AcceptWord)
       /\ Len(s) > Len(AcceptWord)
       /\ IsSpace(s[Len(AcceptWord) + 1])
       /\ ClauseEnd(s, Len(AcceptWord)) - 1 >= Len(AcceptWord) + 2
    THEN ClauseEnd(s, Len(AcceptWord)) - 1
    ELSE 0

\* text.match(/accept\s+([^;)]+)/gi) || []
RECURSIVE AcceptMatches(_)
AcceptMatches(s) ==
    IF s = << >> THEN << >>
    ELSE IF AcceptMatchLen(s) > 0
    THEN << SubSeq(s, 1, AcceptMatchLen(s)) >> \o AcceptMatches(Drop(s, AcceptMatchLen(s)))
    ELSE AcceptMatches(Tail(s))

\* match.replace(/^accept\s+/i, '')
RemoveAcceptWord(match) ==
    IF StartsWithIgnoreCase(match, AcceptWord)
          /\ Len(match) > Len(AcceptWord) /\ IsSpace(match[Len(AcceptWord) + 1])
    THEN TrimStart(Drop(match, Len(AcceptWord)))
    ELSE match

\* text.split(/\(/)[0]
PrimaryPart(text) ==
    IF IndexOf(text, "(", 0) = -1 THEN text
    ELSE Substring(text, 0, IndexOf(text, "(", 0))

\* if (content && content.length > 1) answers.push(content) over a list
RECURSIVE PushAll(_)
PushAll(contents) ==
    IF contents = << >> THEN << >>
    ELSE (IF Head(contents) # << >> /\ Len(Head(contents)) > 1
          THEN << Head(contents) >> ELSE << >>) \o PushAll(Tail(contents))

\* [...new Set(answers)]: the first occurrence of every string, in order
RECURSIVE Distinct(_)
Distinct(answers) ==
    IF answers = << >> THEN << >>
    ELSE LET front == Distinct(SubSeq(answers, 1, Len(answers) - 1))
             last == answers[Len(answers)]
         IN  IF \E i \in 1..Len(front) : front[i] = last
             THEN front ELSE Append(front, last)

StrongContents(text) ==
    LET matches == StrongMatches(text)
    IN  IF matches = << >> THEN << >>
        ELSE [i \in 1..Len(matches) |-> Trim(RemoveStrongTags(matches[i]))]

AcceptContents(text) ==
    LET matches == AcceptMatches(text)
    IN  IF matches = << >> THEN << >>
        ELSE [i \in 1..Len(matches) |->
                 Trim(StripTags(Trim(RemoveAcceptWord(matches[i]))))]

PrimaryClean(text) == Trim(StripTags(PrimaryPart(text)))

\* extractAcceptableAnswers(answerField)
extractAcceptableAnswers(answerField) ==
    Distinct(PushAll(StrongContents(answerField))
                \o PushAll(AcceptContents(answerField))
                \o PushAll(<< PrimaryClean(answerField) >>))

\* The three tests of the loop of checkAnswer (lines 263-278) on one
\* normalized candidate.
MatchesCandidate(normalizedUser, normalizedAcceptable, percent) ==
    \/ normalizedUser = normalizedAcceptable
    \/ Includes(normalizedAcceptable, normalizedUser)
    \/ Includes(normalizedUser, normalizedAcceptable)
    \/ AtLeast(calculateSimilarity(normalizedUser, normalizedAcceptable), percent)

\* The loop of lines 260-279: true as soon as one candidate matches.
RECURSIVE AnyAcceptable(_, _, _)
AnyAcceptable(normalizedUser, acceptableAnswers, percent) ==
    IF acceptableAnswers = << >> THEN FALSE
    ELSE IF MatchesCandidate(normalizedUser, normalizeAnswer(Head(acceptableAnswers)), percent)
    THEN TRUE
    ELSE AnyAcceptable(normalizedUser, Tail(acceptableAnswers), percent)

\* The fallback of lines 281-292 against the whole answer field.
MatchesWhole(normalizedUser, normalizedCorrect, percent) ==
    \/ Includes(normalizedCorrect, normalizedUser)
    \/ Includes(normalizedUser, normalizedCorrect)
    \/ normalizedUser = normalizedCorrect
    \/ AtLeast(calculateSimilarity(normalizedUser, normalizedCorrect), percent)

\* Faulty variant of IsCorrect: the fallback against the whole field is
\* missing.
IsCorrect_NoFallback(typed, answerField, percent) ==
    AnyAcceptable(normalizeAnswer(typed), extractAcceptableAnswers(answerField), percent)

\* Faulty variant of IsCorrect: the loop returns after its first candidate.
IsCorrect_FirstCandidateOnly(typed, answerField, percent) ==
    /\ extractAcceptableAnswers(answerField) # << >>
    /\ MatchesCandidate(normalizeAnswer(typed),
                        normalizeAnswer(Head(extractAcceptableAnswers(answerField))),
                        percent)

\* isCorrect as checkAnswer computes it (lines 253-292) for the trimmed,
\* non-blank answer typed, the answer field and the tolerance in percent.
IsCorrect(typed, answerField, percent) ==
    \/ AnyAcceptable(normalizeAnswer(typed), extractAcceptableAnswers(answerField), percent)
    \/ MatchesWhole(normalizeAnswer(typed), normalizeAnswer(answerField), percent)

\* ------------------------------------------------------- timer helpers
NoTimers == [id \in {} |-> 0]

\* clearInterval(handle)
ClearInterval(tms, handle) == [id \in (DOMAIN tms) \ {handle} |-> tms[id]]

\* setInterval(addNextChar, 10) returning handle id
SetInterval(tms, id, closure) ==
    [i \in (DOMAIN tms) \cup {id} |-> IF i = id THEN closure ELSE tms[i]]

\* The handle setInterval returns when tms are the live intervals.  Both
\* installers store null in state.streamingInterval before they install, so
\* no handle handed out earlier is still held anywhere when the next one is
\* drawn: which unused handle the browser picks cannot be observed.
FreeHandles(tms) == TimerIds \ DOMAIN tms
NewHandle(tms) ==
    CHOOSE id \in FreeHandles(tms) : \A other \in FreeHandles(tms) : id <= other

\* A timer that is still live when a new question starts belongs to the
\* reveal before it.
MarkStale(tms) == [id \in DOMAIN tms |-> [tms[id] EXCEPT !.stale = TRUE]]

Closure(kind, q, buffer) ==
    [kind |-> kind, q |-> q, displayText |-> buffer, stale |-> FALSE]

RemoveSection(n) == IF n > 0 THEN n - 1 ELSE 0

\* The revealer's state in the words of the state machine.
RevealState ==
    IF currentQuestion = NoQuestion THEN "Idle"
    ELSE IF stopped THEN "Stopped"
    ELSE IF interrupted THEN "Interrupted"
    ELSE IF completed THEN "Completed"
    ELSE IF isPaused THEN "Paused"
    ELSE "Revealing"

\* No call of the matcher is being followed.
NotReturned == [called |-> "none"]
NoCall ==
    /\ userAnswer = << >>
    /\ correctAnswer = << >>
    /\ tolerance = 80
    /\ returned = NotReturned

GameInit ==
    /\ currentQuestion = NoQuestion
    /\ streamingInterval = NoTimer
    /\ isPaused = FALSE
    /\ currentCharIndex = 0
    /\ currentSection = "question"
    /\ answerInputShown = FALSE
    /\ questionsPracticed = 0
    /\ questionHistory = << >>
    /\ sessionHistory = << >>
    /\ timers = NoTimers
    /\ sink = << >>
    /\ inputSections = 0
    /\ pauseHidden = TRUE
    /\ startHidden = FALSE
    /\ callbacks = 0
    /\ completed = FALSE
    /\ interrupted = FALSE
    /\ stopped = FALSE
    /\ prior = FALSE
    /\ answerText = Placeholder
    /\ alert = NoAlert

\* No user is signed in: auth has set neither state.currentUser nor
\* state.userProfile, and no Firestore call is in flight.
NoProfile == [loaded |-> FALSE]
NoEntry == [points |-> -1]
Periods == << "allTime", "monthly", "weekly", "daily" >>
SignedOut ==
    /\ currentUser = "none"
    /\ userProfile = NoProfile
    /\ remoteProfile = NoProfile
    /\ leaderboards = [i \in DOMAIN Periods |-> NoEntry]
    /\ remoteHistory = {}
    /\ tasks = << >>
    /\ load = [pc |-> "idle", snapshot |-> {}, concurrent |-> {}]
    /\ pointsCalls = << >>

Init == GameInit /\ NoCall /\ xp = 0 /\ level = 0 /\ SignedOut

\* ------------------------------------------------------------ the tick
\* addNextChar, lines 62-76 of streamText and 378-392 of resumeQuestion:
\* the unit emitted at idx and the index after it.
TagEnd(text, idx) == IndexOf(text, ">", idx)

\* Faulty variant of NextUnit: the result of indexOf is not tested against -1, so an
\* unterminated '<' emits text.substring(idx, 0), which is text[0 .. idx).
NextUnit_NoMissingCheck(text, idx) ==
    IF text[idx + 1] = "<"
    THEN IF TagEnd(text, idx) # -1
         THEN Substring(text, idx, TagEnd(text, idx) + 1)
         ELSE Substring(text, 0, idx)
    ELSE << text[idx + 1] >>

NextUnit(text, idx) ==
    IF text[idx + 1] = "<" /\ TagEnd(text, idx) # -1
    THEN Substring(text, idx, TagEnd(text, idx) + 1)
    ELSE << text[idx + 1] >>

\* Faulty variant of NextIndex: a tag is not stepped over as a whole.
NextIndex_CharByChar(text, idx) == idx + 1

NextIndex(text, idx) ==
    IF text[idx + 1] = "<" /\ TagEnd(text, idx) # -1
    THEN TagEnd(text, idx) + 1
    ELSE idx + 1

\* The emitting branch of addNextChar, the same in both closures.
EmitNext(t) ==
    LET text == Text(timers[t].q)
        buffer == timers[t].displayText \o NextUnit(text, currentCharIndex)
    IN  /\ currentCharIndex' = NextIndex(text, currentCharIndex)
        /\ timers' = [timers EXCEPT ![t].displayText = buffer]
        /\ sink' = SetInnerHTML(buffer \o <<CURSOR>>)
        /\ UNCHANGED << currentQuestion, streamingInterval, isPaused,
                        currentSection, answerInputShown, questionsPracticed,
                        inputSections, pauseHidden, startHidden >>
        /\ UNCHANGED historyVars
        /\ UNCHANGED ghostVars
        /\ UNCHANGED answerVars
        /\ UNCHANGED << matchVars, xp, level, accountVars >>

\* What showAnswerInput leaves in the sink: the cursor removed and, when the
\* reveal had not reached the end of the text, the buzz marker appended.
BuzzSink(s) ==
    IF currentQuestion # NoQuestion /\ currentCharIndex < Len(Text(currentQuestion))
    THEN SetInnerHTML(RemoveCursor(s) \o <<BUZZ>>)
    ELSE RemoveCursor(s)

\* showAnswerInput past its guard, run on the timers and sink its caller
\* has produced so far.
ShowAnswerInputFrom(tms, s) ==
    /\ Len(SelectSeq(BuzzSink(s), LAMBDA c : c = BUZZ)) <= MaxMarkers
    /\ answerInputShown' = TRUE
    /\ isPaused' = TRUE
    /\ timers' = ClearInterval(tms, streamingInterval)
    /\ sink' = BuzzSink(s)
    /\ inputSections' = inputSections + 1

\* addNextChar of streamText: one firing of the interval t.
StreamTick(t) ==
    /\ alert = NoAlert
    /\ t \in DOMAIN timers
    /\ timers[t].kind = "stream"
    /\ \E elapsed \in BOOLEAN :
        IF isPaused \/ ~elapsed
        THEN UNCHANGED vars
        ELSE IF currentCharIndex >= Len(Text(timers[t].q))
        THEN LET cleared == ClearInterval(timers, streamingInterval)
                 written == SetInnerHTML(timers[t].displayText)
             IN  /\ IF ~answerInputShown
                    THEN ShowAnswerInputFrom(cleared, written)
                    ELSE /\ timers' = cleared
                         /\ sink' = written
                         /\ UNCHANGED << answerInputShown, isPaused, inputSections >>
                 /\ completed' = (completed \/ ~timers[t].stale)
                 /\ callbacks' = IF timers[t].stale \/ callbacks >= 2
                                 THEN callbacks ELSE callbacks + 1
                 /\ UNCHANGED << currentQuestion, streamingInterval,
                                 currentCharIndex, currentSection,
                                 questionsPracticed, pauseHidden, startHidden,
                                 interrupted, stopped, prior >>
                 /\ UNCHANGED historyVars
                 /\ UNCHANGED answerVars
                 /\ UNCHANGED << matchVars, xp, level, accountVars >>
        ELSE EmitNext(t)

\* addNextChar of resumeQuestion: one firing of the interval t.
ResumeTick(t) ==
    /\ alert = NoAlert
    /\ t \in DOMAIN timers
    /\ timers[t].kind = "resume"
    /\ \E elapsed \in BOOLEAN :
        IF isPaused \/ ~elapsed
        THEN UNCHANGED vars
        ELSE IF currentCharIndex >= Len(Text(timers[t].q))
        THEN /\ timers' = ClearInterval(timers, streamingInterval)
             /\ sink' = SetInnerHTML(timers[t].displayText)
             /\ pauseHidden' = TRUE
             /\ completed' = (completed \/ ~timers[t].stale)
             /\ UNCHANGED << currentQuestion, streamingInterval, isPaused,
                             currentCharIndex, currentSection, answerInputShown,
                             questionsPracticed, inputSections, startHidden,
                             callbacks, interrupted, stopped, prior >>
             /\ UNCHANGED historyVars
             /\ UNCHANGED answerVars
             /\ UNCHANGED << matchVars, xp, level, accountVars >>
        ELSE EmitNext(t)

\* --------------------------------------------------------- the handlers
\* Faulty variant of CancelPrior: the handle is set to null before clearInterval is
\* called, so nothing is cancelled.
CancelPrior_AfterNull(tms, handle) == tms

\* displayQuestion, lines 85-86: cancel the interval of the reveal before.
CancelPrior(tms, handle) == ClearInterval(tms, handle)

\* if (state.streamingInterval) { clearInterval(state.streamingInterval); ... }
StoredCleared(tms, handle) ==
    IF handle # NoTimer THEN ClearInterval(tms, handle) ELSE tms

\* streamText, lines 31-34 and 81: cancel the stored interval, if any, and
\* install the new one under handle id.
StreamTextTimers(tms, handle, q, id) ==
    SetInterval(StoredCleared(tms, handle), id, Closure("stream", q, << >>))

\* resumeQuestion, lines 346-349 and 397: the same for the resumed reveal,
\* whose buffer starts from what the sink holds.
ResumeTimers(tms, handle, q, id, buffer) ==
    SetInterval(StoredCleared(tms, handle), id, Closure("resume", q, buffer))

\* Faulty variant of DisplayQuestion: state.isPaused is not reset when a
\* question is started.
DisplayQuestion_KeepsPause(q, hidden) ==
    LET cancelled == CancelPrior(timers, streamingInterval)
    IN  IF q = NoQuestion
        THEN /\ currentQuestion' = NoQuestion
             /\ streamingInterval' = NoTimer
             /\ timers' = cancelled
             /\ inputSections' = RemoveSection(inputSections)
             /\ pauseHidden' = hidden
             /\ alert' = NoQuestions
             /\ UNCHANGED << isPaused, currentCharIndex, currentSection,
                             answerInputShown, questionsPracticed, sink,
                             answerText >>
             /\ UNCHANGED historyVars
             /\ UNCHANGED ghostVars
             /\ UNCHANGED << matchVars, xp, level, accountVars >>
        ELSE /\ questionsPracticed < MaxPracticed
             /\ FreeHandles(cancelled) # {}
             /\ currentQuestion' = q
             /\ questionsPracticed' = questionsPracticed + 1
             /\ inputSections' = RemoveSection(inputSections)
             /\ sink' = << >>
             /\ pauseHidden' = FALSE
             /\ currentSection' = "question"
             /\ UNCHANGED isPaused
             /\ answerInputShown' = FALSE
             /\ currentCharIndex' = 0
             /\ timers' = StreamTextTimers(MarkStale(cancelled), NoTimer, q,
                                            NewHandle(cancelled))
             /\ streamingInterval' = NewHandle(cancelled)
             /\ callbacks' = 0
             /\ completed' = FALSE
             /\ interrupted' = FALSE
             /\ stopped' = FALSE
             /\ prior' = (RevealState \in {"Revealing", "Paused"})
             /\ answerText' = Placeholder
             /\ UNCHANGED alert
             /\ UNCHANGED historyVars
             /\ UNCHANGED << matchVars, xp, level, accountVars >>

\* displayQuestion with q the outcome of getRandomQuestion (NoQuestion when
\* the category has no question); hidden is the pause button's class when
\* the handler is entered.
DisplayQuestion(q, hidden) ==
    LET cancelled == CancelPrior(timers, streamingInterval)
    IN  IF q = NoQuestion
        THEN /\ currentQuestion' = NoQuestion
             /\ streamingInterval' = NoTimer
             /\ timers' = cancelled
             /\ inputSections' = RemoveSection(inputSections)
             /\ pauseHidden' = hidden
             /\ alert' = NoQuestions
             /\ UNCHANGED << isPaused, currentCharIndex, currentSection,
                             answerInputShown, questionsPracticed, sink,
                             answerText >>
             /\ UNCHANGED historyVars
             /\ UNCHANGED ghostVars
             /\ UNCHANGED << matchVars, xp, level, accountVars >>
        ELSE /\ questionsPracticed < MaxPracticed
             /\ FreeHandles(cancelled) # {}
             /\ currentQuestion' = q
             /\ questionsPracticed' = questionsPracticed + 1
             /\ inputSections' = RemoveSection(inputSections)
             /\ sink' = << >>
             /\ pauseHidden' = FALSE
             /\ currentSection' = "question"
             /\ isPaused' = FALSE
             /\ answerInputShown' = FALSE
             /\ currentCharIndex' = 0
             /\ timers' = StreamTextTimers(MarkStale(cancelled), NoTimer, q,
                                            NewHandle(cancelled))
             /\ streamingInterval' = NewHandle(cancelled)
             /\ callbacks' = 0
             /\ completed' = FALSE
             /\ interrupted' = FALSE
             /\ stopped' = FALSE
             /\ prior' = (RevealState \in {"Revealing", "Paused"})
             /\ answerText' = Placeholder
             /\ UNCHANGED alert
             /\ UNCHANGED historyVars
             /\ UNCHANGED << matchVars, xp, level, accountVars >>

\* handleStart: the Start button, or the S key while no question is current.
HandleStart ==
    /\ alert = NoAlert
    /\ ~startHidden \/ currentQuestion = NoQuestion
    /\ startHidden' = TRUE
    /\ \E q \in QuestionIds \cup {NoQuestion} : DisplayQuestion(q, FALSE)

\* handleNext: the Next button, the S key while a question is current, or
\* the N key (which is ignored while the answer input is shown).
HandleNext ==
    /\ alert = NoAlert
    /\ startHidden \/ currentQuestion # NoQuestion
    /\ UNCHANGED startHidden
    /\ \E q \in QuestionIds \cup {NoQuestion} : DisplayQuestion(q, pauseHidden)

\* showAnswerInput
ShowAnswerInput ==
    IF answerInputShown
    THEN UNCHANGED vars
    ELSE /\ ShowAnswerInputFrom(timers, sink)
         /\ interrupted' = (interrupted \/
                              (currentQuestion # NoQuestion /\ ~completed /\ ~stopped))
         /\ UNCHANGED << currentQuestion, streamingInterval, currentCharIndex,
                         currentSection, questionsPracticed, pauseHidden,
                         startHidden, callbacks, completed, stopped, prior >>
         /\ UNCHANGED historyVars
         /\ UNCHANGED answerVars
         /\ UNCHANGED << matchVars, xp, level, accountVars >>

\* The space bar outside an input field (keydown listener, lines 472-478).
KeySpace ==
    /\ alert = NoAlert
    /\ currentQuestion # NoQuestion
    /\ ~answerInputShown
    /\ ShowAnswerInput

\* The buzzer button, which updateBuzzerVisibility shows only while a
\* question is streaming.
ClickBuzzer ==
    /\ alert = NoAlert
    /\ currentQuestion # NoQuestion
    /\ ~answerInputShown
    /\ currentSection = "question"
    /\ ShowAnswerInput

\* resumeQuestion
ResumeQuestion ==
    /\ FreeHandles(StoredCleared(timers, streamingInterval)) # {}
    /\ inputSections' = RemoveSection(inputSections)
    /\ answerInputShown' = FALSE
    /\ isPaused' = FALSE
    /\ sink' = RemoveCursor(sink)
    /\ timers' = ResumeTimers(timers, streamingInterval, currentQuestion,
                              NewHandle(StoredCleared(timers, streamingInterval)),
                              RemoveCursor(sink))
    /\ streamingInterval' = NewHandle(StoredCleared(timers, streamingInterval))
    /\ UNCHANGED << currentQuestion, currentCharIndex, currentSection,
                    questionsPracticed, pauseHidden, startHidden >>
    /\ UNCHANGED historyVars
    /\ UNCHANGED ghostVars
    /\ UNCHANGED answerVars
    /\ UNCHANGED << matchVars, xp, level, accountVars >>

\* Faulty variant of PauseQuestion: pausing rewinds the cursor, as starting does.
PauseQuestion_Rewinds ==
    /\ isPaused' = TRUE
    /\ timers' = ClearInterval(timers, streamingInterval)
    /\ currentCharIndex' = 0
    /\ UNCHANGED << currentQuestion, streamingInterval, currentSection,
                    answerInputShown, questionsPracticed, sink, inputSections,
                    pauseHidden, startHidden >>
    /\ UNCHANGED historyVars
    /\ UNCHANGED ghostVars
    /\ UNCHANGED answerVars
    /\ UNCHANGED << matchVars, xp, level, accountVars >>

\* handlePauseResume, the branch that pauses (lines 461-463).
PauseQuestion ==
    /\ isPaused' = TRUE
    /\ timers' = ClearInterval(timers, streamingInterval)
    /\ UNCHANGED << currentQuestion, streamingInterval, currentCharIndex,
                    currentSection, answerInputShown, questionsPracticed,
                    sink, inputSections, pauseHidden, startHidden >>
    /\ UNCHANGED historyVars
    /\ UNCHANGED ghostVars
    /\ UNCHANGED answerVars
    /\ UNCHANGED << matchVars, xp, level, accountVars >>

\* handlePauseResume
HandlePauseResume ==
    IF currentQuestion = NoQuestion
    THEN UNCHANGED vars
    ELSE IF ~isPaused
    THEN PauseQuestion
    ELSE ResumeQuestion

\* The P key outside an input field (keydown listener, lines 499-517).
KeyP ==
    /\ alert = NoAlert
    /\ currentQuestion # NoQuestion
    /\ ~answerInputShown
    /\ HandlePauseResume

\* The Pause/Resume button, clickable while it is not hidden.
ClickPause ==
    /\ alert = NoAlert
    /\ ~pauseHidden
    /\ HandlePauseResume

\* Faulty variant of HistoryEntry: the status passed in is not stored.
HistoryEntry_StatusLost(q, status) == [id |-> QuestionBank[q].id, status |-> "skipped"]

\* addToHistory, lines 10-22: the entry pushed on both sequences.
HistoryEntry(q, status) == [id |-> QuestionBank[q].id, status |-> status]

\* isCorrect of checkAnswer for the questions, typed answers and tolerances
\* a session of this model can submit.
Judgement ==
    [q \in QuestionIds, typed \in TypedAnswers, percent \in Tolerances |->
        IsCorrect(Trim(typed), Answer(q), percent)]

\* checkAnswer, submitted from the answer input section with typed the
\* value of the input field and percent the stored tolerance.
CheckAnswer(typed, percent) ==
    /\ alert = NoAlert
    /\ inputSections > 0
    /\ currentQuestion # NoQuestion
    /\ IF Trim(typed) = << >>
       THEN /\ alert' = EnterAnAnswer
            /\ UNCHANGED << sessionVars, historyVars, ghostVars, answerText,
                            matchVars, xp, level, accountVars >>
       ELSE /\ Len(sessionHistory) < MaxHistory
            /\ LET isCorrect == Judgement[currentQuestion, typed, percent]
                   entry == HistoryEntry(currentQuestion,
                                         IF isCorrect THEN "correct" ELSE "incorrect")
               IN  /\ questionHistory' = Append(questionHistory, entry)
                   /\ sessionHistory' = Append(sessionHistory, entry)
                   /\ answerText' = Judged(Trim(typed), isCorrect,
                                           Answer(currentQuestion))
            /\ inputSections' = RemoveSection(inputSections)
            /\ timers' = ClearInterval(timers, streamingInterval)
            /\ sink' = SetInnerHTML(Text(currentQuestion))
            /\ pauseHidden' = TRUE
            /\ currentSection' = "answer"
            /\ answerInputShown' = FALSE
            /\ stopped' = TRUE
            /\ UNCHANGED << currentQuestion, streamingInterval, isPaused,
                            currentCharIndex, questionsPracticed, startHidden,
                            callbacks, completed, interrupted, prior, alert >>
            /\ UNCHANGED << matchVars, xp, level, accountVars >>

\* revealAnswer followed by showAnswer: the question is skipped.
RevealAnswer ==
    /\ alert = NoAlert
    /\ currentQuestion # NoQuestion
    /\ Len(sessionHistory) < MaxHistory
    /\ inputSections' = RemoveSection(inputSections)
    /\ timers' = ClearInterval(timers, streamingInterval)
    /\ sink' = SetInnerHTML(Text(currentQuestion))
    /\ questionHistory' = Append(questionHistory, HistoryEntry(currentQuestion, "skipped"))
    /\ sessionHistory' = Append(sessionHistory, HistoryEntry(currentQuestion, "skipped"))
    /\ pauseHidden' = TRUE
    /\ currentSection' = "answer"
    /\ isPaused' = FALSE
    /\ stopped' = TRUE
    /\ UNCHANGED << currentQuestion, streamingInterval, currentCharIndex,
                    answerInputShown, questionsPracticed, startHidden,
                    callbacks, completed, interrupted, prior, alert >>
    /\ answerText' = Skipped(Answer(currentQuestion))
    /\ UNCHANGED << matchVars, xp, level, accountVars >>

\* The user closes the alert box; while it is open the page runs no handler
\* and no timer.
DismissAlert ==
    /\ alert # NoAlert
    /\ alert' = NoAlert
    /\ UNCHANGED << sessionVars, historyVars, ghostVars, answerText, matchVars,
                    xp, level, accountVars >>

Next ==
    \/ HandleStart
    \/ HandleNext
    \/ KeySpace
    \/ ClickBuzzer
    \/ KeyP
    \/ ClickPause
    \/ \E typed \in TypedAnswers, percent \in Tolerances : CheckAnswer(typed, percent)
    \/ RevealAnswer
    \/ \E t \in TimerIds : StreamTick(t)
    \/ \E t \in TimerIds : ResumeTick(t)
    \/ DismissAlert

Spec == Init /\ [][Next]_vars

\* The session of a user who starts questions, pauses and resumes, and
\* never buzzes in, answers or skips: the reveals that nothing but a pause
\* or a new start disturbs.  The browser fires a live interval again and
\* again and performance.now() advances: a tick that can emit or finish is
\* not postponed forever.
RevealNext ==
    \/ HandleStart
    \/ HandleNext
    \/ KeyP
    \/ ClickPause
    \/ \E t \in TimerIds : StreamTick(t)
    \/ \E t \in TimerIds : ResumeTick(t)
    \/ DismissAlert

RevealSpec ==
    /\ Init
    /\ [][RevealNext]_vars
    /\ WF_vars(\E t \in TimerIds : StreamTick(t))
    /\ WF_vars(\E t \in TimerIds : ResumeTick(t))

\* ------------------------------------------------ calls of the matcher
\* The matcher's functions are pure.  Each of the specifications below
\* draws the arguments of one call from a bounded set and follows the call
\* to its return; the session is not started.
Strings(alphabet, n) == UNION { [1..k -> alphabet] : k \in 0..n }

RECURSIVE Flatten(_)
Flatten(pieces) ==
    IF pieces = << >> THEN << >> ELSE Head(pieces) \o Flatten(Tail(pieces))

Returned(function, value) == [called |-> function, value |-> value]

\* normalizeAnswer(userAnswer), for every string of at most MaxAnswerLen
\* characters of letters, a full stop, the space, '<' and '>'.
NormalizeAlphabet == { "o", "f", "A", ".", " ", "<", ">" }

NormalizeInit ==
    /\ GameInit
    /\ xp = 0
    /\ level = 0
    /\ SignedOut
    /\ userAnswer \in Strings(NormalizeAlphabet, MaxAnswerLen)
    /\ correctAnswer = << >>
    /\ tolerance = 80
    /\ returned = NotReturned

CallNormalizeAnswer ==
    /\ returned = NotReturned
    /\ returned' = Returned("normalizeAnswer", normalizeAnswer(userAnswer))
    /\ UNCHANGED << gameVars, userAnswer, correctAnswer, tolerance, xp, level,
                    accountVars >>

NormalizeSpec == NormalizeInit /\ [][CallNormalizeAnswer]_vars

\* calculateSimilarity(userAnswer, correctAnswer), for every two strings of
\* at most MaxWordLen letters.
SimilarityAlphabet == { "a", "b" }

SimilarityInit ==
    /\ GameInit
    /\ xp = 0
    /\ level = 0
    /\ SignedOut
    /\ userAnswer \in Strings(SimilarityAlphabet, MaxWordLen)
    /\ correctAnswer \in Strings(SimilarityAlphabet, MaxWordLen)
    /\ tolerance = 80
    /\ returned = NotReturned

CallCalculateSimilarity ==
    /\ returned = NotReturned
    /\ returned' = Returned("calculateSimilarity",
                            calculateSimilarity(userAnswer, correctAnswer))
    /\ UNCHANGED << gameVars, userAnswer, correctAnswer, tolerance, xp, level,
                    accountVars >>

SimilaritySpec == SimilarityInit /\ [][CallCalculateSimilarity]_vars

\* extractAcceptableAnswers(correctAnswer), for every answer field made of
\* at most MaxPieces of these pieces.
StrongCd == StrongOpen \o << "c", "d" >> \o StrongClose
StrongAb == StrongOpen \o << "A", "b" >> \o StrongClose
AcceptAb == << "(" >> \o AcceptWord \o << " ", "a", "b", ")" >>
AcceptX == AcceptWord \o << " ", "x", ";" >>

Pieces ==
    { StrongCd, StrongAb, AcceptAb, AcceptX, << "a", "b" >>, << "x" >>,
      << " " >>, << "(" >>, << "<", "b", ">" >> }

AnswerFields == { Flatten(pieces) : pieces \in Strings(Pieces, MaxPieces) }

ExtractInit ==
    /\ GameInit
    /\ xp = 0
    /\ level = 0
    /\ SignedOut
    /\ userAnswer = << >>
    /\ correctAnswer \in AnswerFields
    /\ tolerance = 80
    /\ returned = NotReturned

CallExtractAcceptableAnswers ==
    /\ returned = NotReturned
    /\ returned' = Returned("extractAcceptableAnswers",
                            extractAcceptableAnswers(correctAnswer))
    /\ UNCHANGED << gameVars, userAnswer, correctAnswer, tolerance, xp, level,
                    accountVars >>

ExtractSpec == ExtractInit /\ [][CallExtractAcceptableAnswers]_vars

\* The judgement of checkAnswer (lines 247-292) for a typed answer, an
\* answer field and a tolerance: the typed answers are the strings of at
\* most MaxTypedLen characters and two names, the answer fields are made of
\* at most MaxFieldPieces pieces or are one of three fields about the Duke
\* of Wellington.
Wellingtun == << "W", "e", "l", "l", "i", "n", "g", "t", "u", "n" >>
Wellington == << "W", "e", "l", "l", "i", "n", "g", "t", "o", "n" >>
ArthurWellesley ==
    << "A", "r", "t", "h", "u", "r", " ", "W", "e", "l", "l", "e", "s", "l", "e", "y" >>
DukeOfWellington == << "D", "u", "k", "e", " ", "o", "f", " " >> \o Wellington

WellingtonField == StrongOpen \o Wellington \o StrongClose
DukeField == StrongOpen \o DukeOfWellington \o StrongClose
DukeAcceptField ==
    DukeField \o << " ", "(" >> \o AcceptWord \o << " " >> \o ArthurWellesley \o << ")" >>

TypedAlphabet == { "a", "b", " " }
CheckTyped == Strings(TypedAlphabet, MaxTypedLen) \cup { Wellingtun, ArthurWellesley }

ParenB == << "(", "b", ")" >>
FieldPieces == { StrongCd, AcceptAb, << "a", "b" >>, ParenB }
CheckFields ==
    { Flatten(pieces) : pieces \in Strings(FieldPieces, MaxFieldPieces) }
        \cup { WellingtonField, DukeField, DukeAcceptField }

\* The values of the answerTolerance setting the judgement is called with:
\* both ends of the range, the default and one in between.
CheckTolerances == { 0, 80, 99, 100 }

CheckInit ==
    /\ GameInit
    /\ xp = 0
    /\ level = 0
    /\ SignedOut
    /\ userAnswer \in CheckTyped
    /\ correctAnswer \in CheckFields
    /\ tolerance \in CheckTolerances
    /\ returned = NotReturned

CallCheckAnswer ==
    /\ returned = NotReturned
    /\ returned' =
          IF Trim(userAnswer) = << >>
          THEN Returned("checkAnswer", EnterAnAnswer)
          ELSE Returned("checkAnswer",
                        IsCorrect(Trim(userAnswer), correctAnswer, tolerance))
    /\ UNCHANGED << gameVars, userAnswer, correctAnswer, tolerance, xp, level,
                    accountVars >>

CheckSpec == CheckInit /\ [][CallCheckAnswer]_vars

\* ---------------------------------------------------------------------
\* xpSystem.js: the level thresholds and the level of an amount of XP.

\* The last level: the bound of the loop of getLevelFromXP and its result
\* when no threshold is above the XP.
LevelCap == 100

\* getXPForLevel, lines 5-17.
getXPForLevel(l) ==
    IF l <= 0 THEN 0
    ELSE IF l <= 10 THEN l * 100
    ELSE IF l <= 20 THEN 1000 + (l - 10) * 200
    ELSE IF l <= 30 THEN 3000 + (l - 20) * 400
    ELSE IF l <= 40 THEN 7000 + (l - 30) * 600
    ELSE IF l <= 50 THEN 13000 + (l - 40) * 800
    ELSE IF l <= 60 THEN 21000 + (l - 50) * 1000
    ELSE IF l <= 70 THEN 31000 + (l - 60) * 1500
    ELSE IF l <= 80 THEN 46000 + (l - 70) * 2000
    ELSE IF l <= 90 THEN 66000 + (l - 80) * 3000
    ELSE 96000 + (l - 90) * 5000

\* The loop of getLevelFromXP, lines 21-24, from level l on.
RECURSIVE LevelLoop(_, _)
LevelLoop(x, l) ==
    IF l > LevelCap THEN LevelCap
    ELSE IF x < getXPForLevel(l) THEN (IF l - 1 >= 1 THEN l - 1 ELSE 1)
    ELSE LevelLoop(x, l + 1)

\* Faulty variant of getLevelFromXP: the level the loop stops at is
\* returned as it is.
getLevelFromXP_NoStepBack(x) ==
    IF x < 0 THEN 1
    ELSE LET stopped_at == LevelLoop(x, 1)
         IN  IF stopped_at < LevelCap THEN stopped_at + 1 ELSE stopped_at

\* getLevelFromXP, lines 19-25.
getLevelFromXP(x) == IF x < 0 THEN 1 ELSE LevelLoop(x, 1)

\* The arguments of getLevelFromXP: every XP up to MaxXp, and the XP just
\* below, at and just above each threshold.
XpValues ==
    (0..MaxXp) \cup { getXPForLevel(l) + d : l \in 1..LevelCap, d \in { -1, 0, 1 } }

LevelInit ==
    /\ GameInit
    /\ NoCall
    /\ SignedOut
    /\ \/ xp \in XpValues /\ level = 0
       \/ xp = 0 /\ level \in 1..LevelCap

CallGetLevelFromXP ==
    /\ returned = NotReturned
    /\ level = 0
    /\ returned' = Returned("getLevelFromXP", getLevelFromXP(xp))
    /\ UNCHANGED << gameVars, userAnswer, correctAnswer, tolerance, xp, level,
                    accountVars >>

CallGetXPForLevel ==
    /\ returned = NotReturned
    /\ level > 0
    /\ returned' = Returned("getXPForLevel", getXPForLevel(level))
    /\ UNCHANGED << gameVars, userAnswer, correctAnswer, tolerance, xp, level,
                    accountVars >>

LevelNext == CallGetLevelFromXP \/ CallGetXPForLevel

LevelSpec == LevelInit /\ [][LevelNext]_vars

\* ---------------------------------------------------------------------
\* A verified user: addToHistory with its saveHistoryItem and
\* updatePointsAndLeaderboard, and loadUserHistory.  Each async function is
\* a task that stands at one of its awaits; one action runs a task from the
\* resolution (or rejection) of the awaited Firestore call to its next
\* await or to its end.  A Firestore write takes effect when it resolves;
\* getDocs reads the collection at some moment between its call and its
\* resolution.

\* POINTS_VALUES and calculatePoints.
POINTS_VALUES == [P |-> 10, Q |-> 20, S |-> 30, F |-> 50]
calculatePoints(difficulty) ==
    IF difficulty \in DOMAIN POINTS_VALUES THEN POINTS_VALUES[difficulty] ELSE 0

\* question.id.charAt(0) for the ids of QuestionBank.
CharAt0(id) ==
    CASE id = "P1" -> "P"
      [] id = "Q3" -> "Q"

\* The historyEntry of addToHistory; Date.now() is a clock that has
\* advanced since the entry before.
HistoryItem(q, status, timestamp) ==
    [id |-> QuestionBank[q].id, status |-> status, timestamp |-> timestamp]

\* The documents of a query snapshot in the order of orderBy('timestamp', 'asc').
RECURSIVE ByTimestamp(_)
ByTimestamp(docs) ==
    IF docs = {} THEN << >>
    ELSE LET first == CHOOSE d \in docs : \A e \in docs : d.timestamp <= e.timestamp
         IN  << first >> \o ByTimestamp(docs \ { first })

NoWrite == [currentStreak |-> 0, bestStreak |-> 0, points |-> 0,
            questionsAnswered |-> 0, level |-> 0]

\* An addToHistory call at an await: pc names the awaited call, write is
\* the data handed to it, the other fields are the locals of
\* updatePointsAndLeaderboard.
Task(pc, entry) ==
    [pc |-> pc, entry |-> entry, write |-> NoWrite, previousLevel |-> 0,
     xpEarned |-> 0, period |-> 0]

\* A verified user whose profile is loaded: with or without a username,
\* just below the XP of level 2, no current streak.
AccountInit ==
    /\ GameInit
    /\ xp = 0
    /\ level = 0
    /\ userAnswer = << >>
    /\ correctAnswer = << >>
    /\ returned = NotReturned
    /\ tolerance \in { 50, 80 }
    /\ currentUser = "verified"
    /\ userProfile \in
          { [loaded |-> TRUE, username |-> u, totalPoints |-> 190,
             questionsAnswered |-> 0, currentStreak |-> 0, bestStreak |-> b] :
               u \in BOOLEAN, b \in { 0, 1 } }
    /\ remoteProfile = userProfile
    /\ leaderboards = [i \in DOMAIN Periods |-> NoEntry]
    /\ remoteHistory = {}
    /\ tasks = << >>
    /\ load = [pc |-> "idle", snapshot |-> {}, concurrent |-> {}]
    /\ pointsCalls = << >>

\* addToHistory, lines 10-26, up to the await of setDoc in saveHistoryItem
\* (line 45); q is the question passed, state.currentQuestion.
AddToHistory(q, status) ==
    /\ Len(tasks) < MaxAnswers
    /\ LET entry == HistoryItem(q, status, Len(sessionHistory) + 1)
       IN  /\ questionHistory' = Append(questionHistory, entry)
           /\ sessionHistory' = Append(sessionHistory, entry)
           /\ IF currentUser = "verified"
              THEN /\ tasks' = Append(tasks, Task("setDoc", entry))
                   /\ load' = IF load.pc = "idle" THEN load
                              ELSE [load EXCEPT !.concurrent = @ \cup { entry.timestamp }]
              ELSE UNCHANGED << tasks, load >>
    /\ UNCHANGED << sessionVars, ghostVars, answerVars, matchVars, xp, level,
                    currentUser, userProfile, remoteProfile, leaderboards,
                    remoteHistory, pointsCalls >>

\* Faulty variant of UpdateStreak: an incorrect answer leaves the current
\* streak as it is.
UpdateStreak_NoReset(profile, isCorrect) ==
    IF isCorrect
    THEN [profile EXCEPT !.currentStreak = @ + 1,
                         !.bestStreak = IF @ >= profile.currentStreak + 1
                                       THEN @ ELSE profile.currentStreak + 1]
    ELSE profile

\* updatePointsAndLeaderboard, lines 169-177: the streak fields.
UpdateStreak(profile, isCorrect) ==
    IF isCorrect
    THEN [profile EXCEPT !.currentStreak = @ + 1,
                         !.bestStreak = IF @ >= profile.currentStreak + 1
                                       THEN @ ELSE profile.currentStreak + 1]
    ELSE [profile EXCEPT !.currentStreak = 0]

\* updatePointsAndLeaderboard, lines 163-210, called by the task at index i
\* of calling: up to its first await or its return.
UpdatePointsAndLeaderboard(calling, i, difficulty, isCorrect) ==
    LET profile == UpdateStreak(userProfile, isCorrect)
        xpEarned == calculatePoints(difficulty)
        return == [calling EXCEPT ![i] = Task("done", calling[i].entry)]
    IN  IF currentUser # "verified" \/ userProfile = NoProfile
        THEN /\ tasks' = return
             /\ UNCHANGED << userProfile, pointsCalls >>
        ELSE /\ userProfile' = profile
             /\ pointsCalls' = Append(pointsCalls, isCorrect)
             /\ tasks' =
                   IF ~isCorrect
                   THEN [calling EXCEPT
                           ![i].pc = "updateStreak",
                           ![i].write = [NoWrite EXCEPT
                                           !.currentStreak = profile.currentStreak,
                                           !.bestStreak = profile.bestStreak]]
                   ELSE IF tolerance < 80 \/ xpEarned = 0
                   THEN return
                   ELSE [calling EXCEPT
                           ![i].pc = "updatePoints",
                           ![i].previousLevel = getLevelFromXP(userProfile.totalPoints),
                           ![i].xpEarned = xpEarned]

\* The resolution (ok) or rejection of the setDoc of saveHistoryItem, the
\* rest of addToHistory (lines 28-31) and the updatePointsAndLeaderboard it
\* calls.
SetDocHistory(i, ok) ==
    /\ i \in DOMAIN tasks
    /\ tasks[i].pc = "setDoc"
    /\ remoteHistory' = IF ok THEN remoteHistory \cup { tasks[i].entry } ELSE remoteHistory
    /\ UpdatePointsAndLeaderboard(tasks, i, CharAt0(tasks[i].entry.id),
                                  tasks[i].entry.status = "correct")
    /\ UNCHANGED << gameVars, matchVars, xp, level, currentUser, remoteProfile,
                    leaderboards, load >>

\* A call of updatePointsAndLeaderboard on its own.
CallUpdatePointsAndLeaderboard(difficulty, isCorrect) ==
    /\ Len(tasks) < MaxAnswers
    /\ UpdatePointsAndLeaderboard(Append(tasks, Task("called", [id |-> "none"])),
                                  Len(tasks) + 1, difficulty, isCorrect)
    /\ UNCHANGED << gameVars, matchVars, xp, level, currentUser, remoteProfile,
                    leaderboards, remoteHistory, load >>

\* The resolution or rejection of the updateDoc of lines 183-186, then
\* lines 187-191.
UpdateDocStreak(i, ok) ==
    /\ i \in DOMAIN tasks
    /\ tasks[i].pc = "updateStreak"
    /\ remoteProfile' =
          IF ok THEN [remoteProfile EXCEPT !.currentStreak = tasks[i].write.currentStreak,
                                           !.bestStreak = tasks[i].write.bestStreak]
          ELSE remoteProfile
    /\ tasks' = [tasks EXCEPT ![i] = Task("done", tasks[i].entry)]
    /\ UNCHANGED << gameVars, matchVars, xp, level, currentUser, userProfile,
                    leaderboards, remoteHistory, load, pointsCalls >>

\* The data of the setDoc of a leaderboard entry, lines 239-246: the points
\* as they are when setDoc is called, the level as computed before the loop.
BoardWrite(profile, boardLevel) ==
    [NoWrite EXCEPT !.points = profile.totalPoints,
                    !.questionsAnswered = profile.questionsAnswered,
                    !.level = boardLevel]

\* The resolution or rejection of the updateDoc of lines 210-213, then
\* lines 215-239 up to the first setDoc of the loop, or the catch.
UpdateDocPoints(i, ok) ==
    /\ i \in DOMAIN tasks
    /\ tasks[i].pc = "updatePoints"
    /\ IF ok
       THEN LET profile == [userProfile EXCEPT
                              !.totalPoints = @ + tasks[i].xpEarned,
                              !.questionsAnswered = @ + 1]
                newLevel == getLevelFromXP(profile.totalPoints)
            IN  /\ remoteProfile' = [remoteProfile EXCEPT
                                       !.totalPoints = @ + tasks[i].xpEarned,
                                       !.questionsAnswered = @ + 1]
                /\ userProfile' = profile
                /\ tasks' =
                      IF profile.username
                      THEN [tasks EXCEPT
                              ![i].pc = "setDocBoard",
                              ![i].period = 1,
                              ![i].write = BoardWrite(profile, newLevel)]
                      ELSE [tasks EXCEPT ![i] = Task("done", tasks[i].entry)]
       ELSE /\ tasks' = [tasks EXCEPT ![i] = Task("done", tasks[i].entry)]
            /\ UNCHANGED << userProfile, remoteProfile >>
    /\ UNCHANGED << gameVars, matchVars, xp, level, currentUser, leaderboards,
                    remoteHistory, load, pointsCalls >>

\* The resolution or rejection of the setDoc of one period, lines 239-246,
\* then the next turn of the loop, its end or the catch.
SetDocBoard(i, ok) ==
    /\ i \in DOMAIN tasks
    /\ tasks[i].pc = "setDocBoard"
    /\ leaderboards' =
          IF ok THEN [leaderboards EXCEPT ![tasks[i].period] =
                         [points |-> tasks[i].write.points,
                          questionsAnswered |-> tasks[i].write.questionsAnswered,
                          level |-> tasks[i].write.level]]
          ELSE leaderboards
    /\ tasks' =
          IF ok /\ tasks[i].period < Len(Periods)
          THEN [tasks EXCEPT
                  ![i].period = @ + 1,
                  ![i].write = BoardWrite(userProfile, tasks[i].write.level)]
          ELSE [tasks EXCEPT ![i] = Task("done", tasks[i].entry)]
    /\ UNCHANGED << gameVars, matchVars, xp, level, currentUser, userProfile,
                    remoteProfile, remoteHistory, load, pointsCalls >>

\* loadUserHistory, lines 51-63, up to the await of getDocs; called on the
\* dashboard and history routes and on an auth event.
LoadUserHistory ==
    /\ currentUser = "verified"
    /\ load.pc = "idle"
    /\ load' = [pc |-> "getDocs", snapshot |-> {}, concurrent |->
                   { tasks[i].entry.timestamp :
                        i \in { j \in DOMAIN tasks : tasks[j].pc # "done" } }]
    /\ UNCHANGED << gameVars, matchVars, xp, level, currentUser, userProfile,
                    remoteProfile, leaderboards, remoteHistory, tasks, pointsCalls >>

\* Firestore runs the query of getDocs.
GetDocsRead ==
    /\ load.pc = "getDocs"
    /\ load' = [load EXCEPT !.pc = "resolving", !.snapshot = remoteHistory]
    /\ UNCHANGED << gameVars, matchVars, xp, level, currentUser, userProfile,
                    remoteProfile, leaderboards, remoteHistory, tasks, pointsCalls >>

\* The resolution of getDocs and lines 65-72, or its rejection and the
\* catch.
GetDocsResolved(ok) ==
    /\ load.pc = "resolving"
    /\ load' = [load EXCEPT !.pc = "idle", !.snapshot = {}]
    /\ IF ok
       THEN /\ questionHistory' = ByTimestamp(load.snapshot)
            /\ questionsPracticed' = Len(questionHistory')
       ELSE UNCHANGED << questionHistory, questionsPracticed >>
    /\ UNCHANGED << currentQuestion, streamingInterval, isPaused, currentCharIndex,
                    currentSection, answerInputShown, sessionHistory, timers, sink,
                    inputSections, pauseHidden, startHidden, ghostVars, answerVars,
                    matchVars, xp, level, currentUser, userProfile, remoteProfile,
                    leaderboards, remoteHistory, tasks, pointsCalls >>

AccountNext ==
    \/ \E q \in QuestionIds, status \in { "correct", "incorrect", "skipped" } :
          AddToHistory(q, status)
    \/ \E i \in 1..MaxAnswers, ok \in BOOLEAN : SetDocHistory(i, ok)
    \/ \E i \in 1..MaxAnswers, ok \in BOOLEAN : UpdateDocStreak(i, ok)
    \/ \E i \in 1..MaxAnswers, ok \in BOOLEAN : UpdateDocPoints(i, ok)
    \/ \E i \in 1..MaxAnswers, ok \in BOOLEAN : SetDocBoard(i, ok)
    \/ LoadUserHistory
    \/ GetDocsRead
    \/ \E ok \in BOOLEAN : GetDocsResolved(ok)

AccountSpec == AccountInit /\ [][AccountNext]_vars

\* The calls of updatePointsAndLeaderboard of the same user, each with the
\* first letter of a question id and whether the answer was correct.
PointsNext ==
    \/ \E difficulty \in { "P", "Q" }, isCorrect \in BOOLEAN :
          CallUpdatePointsAndLeaderboard(difficulty, isCorrect)
    \/ \E i \in 1..MaxAnswers, ok \in BOOLEAN : UpdateDocStreak(i, ok)
    \/ \E i \in 1..MaxAnswers, ok \in BOOLEAN : UpdateDocPoints(i, ok)
    \/ \E i \in 1..MaxAnswers, ok \in BOOLEAN : SetDocBoard(i, ok)

PointsSpec == AccountInit /\ [][PointsNext]_vars

\* ------------------------------------------------------------ the claims
\* A step that starts no new question.
SameReveal == questionsPracticed' = questionsPracticed

\* A step in which a live interval emitted a unit: the intervals stay the
\* same ones and a buffer changed.
EmitStep == SameReveal /\ DOMAIN timers' = DOMAIN timers /\ timers' # timers

\* The text emitted so far, as the sink shows it: the sink without the
\* cursor marker and the buzz marker.
Emitted(s) == SelectSeq(s, LAMBDA c : c # CURSOR /\ c # BUZZ)

\* idx lies strictly inside a terminated tag of text: after its '<' and not
\* past its '>'.
InsideTag(text, idx) ==
    \E i \in 0..(idx - 1) :
        /\ text[i + 1] = "<"
        /\ TagEnd(text, i) # -1
        /\ idx <= TagEnd(text, i)

\* C1: a reveal that is never interrupted, stopped or restarted and whose
\* tick has reached the end of the text has had its completion callback
\* invoked exactly once, whatever pauses and resumes came before.
C1_CompletedCallsBackOnce ==
    (currentQuestion # NoQuestion /\ completed /\ ~interrupted /\ ~stopped)
        => callbacks = 1

\* C2: once a reveal has been interrupted by a buzz-in, no step that starts
\* no new question advances currentCharIndex or invokes the callback.
C2_InterruptIsFinal ==
    [][(interrupted /\ interrupted')
          => (currentCharIndex' = currentCharIndex /\ callbacks' = callbacks)]_vars

\* C3: once a reveal has been stopped or interrupted, no later step other
\* than a judgement, a skip or the start of a new question updates the sink
\* or invokes the callback.
C3_NoSinkUpdateAfterStop ==
    [][((stopped \/ interrupted) /\ SameReveal /\ sessionHistory' = sessionHistory)
          => (sink' = sink /\ callbacks' = callbacks)]_vars

\* C4: at most one repeating timer is live, and it is the one whose handle
\* is stored in state.streamingInterval.
C4_AtMostOneTimer ==
    /\ Cardinality(DOMAIN timers) <= 1
    /\ DOMAIN timers \subseteq {streamingInterval}

\* C4 witness: a question started while the one before was still being
\* revealed, then paused and resumed: three installs, one live timer.
C4_Witness ==
    /\ prior
    /\ \E t \in DOMAIN timers : timers[t].kind = "resume"

\* C5: currentCharIndex is never strictly inside a terminated tag, and every
\* emitting tick advances it by one character or, at a '<' with a later '>',
\* to just past that '>'.
C5_CursorNeverInsideTag ==
    /\ [](currentQuestion # NoQuestion
             => ~InsideTag(Text(currentQuestion), currentCharIndex))
    /\ [][(SameReveal /\ currentCharIndex' # currentCharIndex)
             => LET text == Text(currentQuestion)
                    idx == currentCharIndex
                IN  IF text[idx + 1] = "<" /\ \E j \in idx..(Len(text) - 1) : text[j + 1] = ">"
                    THEN /\ currentCharIndex' > idx + 1
                         /\ text[currentCharIndex'] = ">"
                         /\ \A j \in idx..(currentCharIndex' - 2) : text[j + 1] # ">"
                    ELSE currentCharIndex' = idx + 1]_vars

\* C5 witness: the reveal of "1<b>2</b>" has just emitted the tag <b> whole.
C5_Witness ==
    /\ currentQuestion = 1
    /\ currentCharIndex = 4
    /\ \E t \in DOMAIN timers : timers[t].displayText = <<"1">> \o StartB

\* C6: the buffer of emitted increments always equals text[0 .. cursorIndex),
\* also after a pause and a resume.
C6_EmittedIsPrefix ==
    \A t \in DOMAIN timers :
        timers[t].displayText = Substring(Text(timers[t].q), 0, currentCharIndex)

\* C7: a reveal that was only paused and resumed ends with the sink an
\* uninterrupted reveal ends with, the whole text.
C7_ResumedEndsLikeUninterrupted ==
    (currentQuestion # NoQuestion /\ completed /\ ~interrupted /\ ~stopped)
        => sink = SetInnerHTML(Text(currentQuestion))

\* C8: a pause retains currentCharIndex, and while the revealer stays paused
\* no step other than a judgement changes currentCharIndex or the emitted
\* text.
C8_PausedEmitsNothing ==
    [][(isPaused' /\ SameReveal /\ sessionHistory' = sessionHistory)
          => (currentCharIndex' = currentCharIndex /\ Emitted(sink') = Emitted(sink))]_vars

\* C8 witness: a reveal paused by the user in the middle of the text.
C8_Witness ==
    /\ currentQuestion # NoQuestion
    /\ isPaused
    /\ ~answerInputShown
    /\ ~interrupted /\ ~stopped /\ ~completed
    /\ currentCharIndex > 0
    /\ currentCharIndex < Len(Text(currentQuestion))

\* C9: after a start during a reveal, no timer of the reveal before is live:
\* every live timer reveals the current question for the current reveal, and
\* the callback has run at most once for it.
C9_PriorRevealCancelled ==
    /\ \A t \in DOMAIN timers : ~timers[t].stale /\ timers[t].q = currentQuestion
    /\ callbacks <= 1

\* C9 witness: a reveal started while the one before was Revealing or Paused
\* has run to its end and invoked its callback.
C9_Witness == prior /\ completed /\ callbacks = 1

\* C10: a tick at a '<' with no '>' at or after it emits that one character
\* and advances currentCharIndex by one.
C10_UnterminatedTagIsLiteral ==
    [][(EmitStep
          /\ Text(currentQuestion)[currentCharIndex + 1] = "<"
          /\ \A j \in currentCharIndex..(Len(Text(currentQuestion)) - 1) :
                Text(currentQuestion)[j + 1] # ">")
          => /\ currentCharIndex' = currentCharIndex + 1
             /\ \A t \in DOMAIN timers :
                   /\ timers'[t].displayText = timers[t].displayText \o <<"<">>
                   /\ sink' = SetInnerHTML(timers'[t].displayText \o <<CURSOR>>)]_vars

\* C10 witness: the reveal of "1<2" has gone past its unterminated '<'.
C10_Witness ==
    /\ currentQuestion = 2
    /\ currentCharIndex = 3
    /\ sink = <<"1", LT, "2", CURSOR>>

\* C11: every emitting tick writes the buffer followed by the cursor marker
\* to the sink, and the sink holds no cursor marker once the reveal is
\* Completed or Stopped; a Completed reveal's sink is its buffer.
C11_CursorOnlyWhileRevealing ==
    /\ [][EmitStep
            => \A t \in DOMAIN timers' :
                  sink' = SetInnerHTML(timers'[t].displayText \o <<CURSOR>>)]_vars
    /\ []((currentQuestion # NoQuestion /\ (completed \/ stopped))
            => \A i \in 1..Len(sink) : sink[i] # CURSOR)

\* C12: normalizeAnswer applied to what normalizeAnswer returned returns it
\* unchanged.
C12_NormalizeIdempotent ==
    returned.called = "normalizeAnswer"
        => normalizeAnswer(returned.value) = returned.value

\* Unit-cost edit distance by its recurrence on the first characters.
RECURSIVE EditDistance(_, _)
EditDistance(a, b) ==
    IF a = << >> THEN Len(b)
    ELSE IF b = << >> THEN Len(a)
    ELSE LET insert == EditDistance(a, Tail(b)) + 1
             delete == EditDistance(Tail(a), b) + 1
             substitute == EditDistance(Tail(a), Tail(b))
                              + (IF Head(a) = Head(b) THEN 0 ELSE 1)
         IN  IF insert <= delete /\ insert <= substitute THEN insert
             ELSE IF delete <= substitute THEN delete
             ELSE substitute

Longest(a, b) == IF Len(a) >= Len(b) THEN Len(a) ELSE Len(b)

\* C13: calculateSimilarity(a, b) is 1 - d/max(len(a), len(b)) with d the
\* unit-cost edit distance, which levenshteinDistance computes; it lies in
\* [0, 1], is 1 when a = b and 0 when exactly one of the two is empty.
C13_SimilarityIsOneMinusDistanceRatio ==
    returned.called = "calculateSimilarity"
        => LET a == userAnswer
               b == correctAnswer
               num == returned.value[1]
               den == returned.value[2]
           IN  /\ den > 0 /\ 0 <= num /\ num <= den
               /\ levenshteinDistance(a, b) = EditDistance(a, b)
               /\ Longest(a, b) > 0
                     => num * Longest(a, b) = (Longest(a, b) - EditDistance(a, b)) * den
               /\ a = b => num = den
               /\ (a = << >>) # (b = << >>) => num = 0

\* C13 witness: two different non-empty strings of different lengths have
\* been compared, and the similarity is strictly between 0 and 1.
C13_Witness ==
    /\ returned.called = "calculateSimilarity"
    /\ userAnswer = << "a", "b" >>
    /\ correctAnswer = << "a", "a", "b" >>
    /\ returned.value = << 2, 3 >>

\* One normalized string equals, contains or is contained in the other, or
\* their similarity reaches the tolerance.
Contains(whole, part) ==
    \E from \in 1..(Len(whole) + 1), to \in 0..Len(whole) :
        to >= from - 1 /\ SubSeq(whole, from, to) = part

ClaimedMatch(normUser, normCandidate, percent) ==
    \/ normUser = normCandidate
    \/ Contains(normCandidate, normUser)
    \/ Contains(normUser, normCandidate)
    \/ LET similarity == calculateSimilarity(normUser, normCandidate)
       IN  similarity[1] * 100 >= percent * similarity[2]

\* C14: the judgement of a non-blank answer is true exactly when some
\* candidate of extractAcceptableAnswers matches the answer (equal,
\* containing, contained or similar enough, after normalization) or the
\* whole answer field does.
C14_JudgementIsAnyMatch ==
    (returned.called = "checkAnswer" /\ Trim(userAnswer) # << >>)
        => LET candidates == extractAcceptableAnswers(correctAnswer)
               normUser == normalizeAnswer(Trim(userAnswer))
           IN  returned.value =
                  (\/ \E i \in 1..Len(candidates) :
                         ClaimedMatch(normUser, normalizeAnswer(candidates[i]), tolerance)
                   \/ ClaimedMatch(normUser, normalizeAnswer(correctAnswer), tolerance))

\* C14 witness: "Wellingtun" has been judged correct against
\* <strong>Wellington</strong> at tolerance 80, which only the similarity
\* test can decide.
C14_Witness ==
    /\ returned.called = "checkAnswer"
    /\ userAnswer = Wellingtun
    /\ correctAnswer = WellingtonField
    /\ tolerance = 80
    /\ returned.value = TRUE

\* The result is not empty for an input that is neither empty nor made of
\* markup tags only.
EntirelyMarkup(s) == StripTags(s) = << >>

\* C15: extractAcceptableAnswers returns at least one candidate for every
\* answer field that is neither empty nor entirely markup.
C15_ExtractNeverEmpty ==
    (returned.called = "extractAcceptableAnswers"
        /\ correctAnswer # << >> /\ ~EntirelyMarkup(correctAnswer))
        => returned.value # << >>

\* The entries in the order the code collects them, before duplicates are
\* removed, and the place where an entry was first collected.
Collected(field) ==
    PushAll(StrongContents(field)) \o PushAll(AcceptContents(field))
        \o PushAll(<< PrimaryClean(field) >>)

FirstCollected(field, entry) ==
    CHOOSE i \in 1..Len(Collected(field)) :
        /\ Collected(field)[i] = entry
        /\ \A j \in 1..(i - 1) : Collected(field)[j] # entry

\* C16: no two entries of the result have the same normalized form, and the
\* entries appear in the order in which they were first collected.
C16_NoDuplicateNormalizedEntries ==
    returned.called = "extractAcceptableAnswers"
        => \A i, j \in 1..Len(returned.value) :
              i < j =>
                 /\ normalizeAnswer(returned.value[i]) # normalizeAnswer(returned.value[j])
                 /\ FirstCollected(correctAnswer, returned.value[i])
                       < FirstCollected(correctAnswer, returned.value[j])

\* C17: the result lists the primary answer first, then the <strong> spans,
\* then the accept clauses, with duplicates removed.
C17_PrimaryStrongAccept ==
    returned.called = "extractAcceptableAnswers"
        => returned.value =
              Distinct(PushAll(<< PrimaryClean(correctAnswer) >>)
                          \o PushAll(StrongContents(correctAnswer))
                          \o PushAll(AcceptContents(correctAnswer)))

\* C18: "Wellingtun" against <strong>Duke of Wellington</strong> is judged
\* correct at tolerance 80 and incorrect at tolerance 99.
C18_NearMissAcceptedAt80 ==
    (returned.called = "checkAnswer"
        /\ userAnswer = Wellingtun /\ correctAnswer = DukeField)
        => returned.value = (tolerance = 80)

\* The texts of the accept clauses of an answer field: after the word accept
\* and the spaces that follow it, up to the next ';' or ')'.
IsClauseText(field, text) ==
    \E i \in 1..Len(field) :
        /\ i + Len(AcceptWord) <= Len(field)
        /\ IsSpace(field[i + Len(AcceptWord)])
        /\ StartsWithIgnoreCase(Drop(field, i - 1), AcceptWord)
        /\ \E j \in (i + Len(AcceptWord))..Len(field) :
              /\ \A k \in (i + Len(AcceptWord))..j : field[k] # ";" /\ field[k] # ")"
              /\ j = Len(field) \/ field[j + 1] = ";" \/ field[j + 1] = ")"
              /\ text = Trim(SubSeq(field, i + Len(AcceptWord), j))

\* C19: a non-blank answer that is the text of an accept clause of the
\* answer field is judged correct, whatever the tolerance.
C19_AcceptClauseIsCorrect ==
    (returned.called = "checkAnswer"
        /\ Trim(userAnswer) # << >>
        /\ IsClauseText(correctAnswer, Trim(userAnswer)))
        => returned.value = TRUE

\* C19 witness: "Arthur Wellesley" has been judged against
\* <strong>Duke of Wellington</strong> (accept Arthur Wellesley).
C19_Witness ==
    /\ returned.called = "checkAnswer"
    /\ userAnswer = ArthurWellesley
    /\ correctAnswer = DukeAcceptField
    /\ returned.value = TRUE

\* C20: a blank answer is rejected with the alert and nothing else changes:
\* no history entry, no judgement in the answer panel, the answer input,
\* section, timer and pause flag as they were; and the answer panel never
\* shows a judgement of a blank answer.
C20_BlankAnswerRejected ==
    /\ [][(alert' = EnterAnAnswer /\ alert = NoAlert)
            => (/\ inputSections > 0
                /\ UNCHANGED << sessionVars, historyVars, ghostVars, answerText >>)]_vars
    /\ [](answerText.shown = "judged"
            => \E i \in 1..Len(answerText.userAnswer) :
                  ~IsSpace(answerText.userAnswer[i]))

\* C20 witness: a blank answer has been submitted and the alert is open over
\* the answer input of a paused question.
C20_Witness ==
    /\ alert = EnterAnAnswer
    /\ inputSections > 0
    /\ answerInputShown
    /\ isPaused
    /\ sessionHistory = << >>

\* C21: every step leaves both history sequences as they are or appends one
\* and the same entry for the current question to both; a judgement appends
\* 'correct' or 'incorrect' as judged and a skip appends 'skipped'.
C21_OneEntryPerJudgementOrSkip ==
    [][/\ \/ UNCHANGED historyVars
          \/ \E status \in { "correct", "incorrect", "skipped" } :
                /\ currentQuestion # NoQuestion
                /\ sessionHistory' =
                      Append(sessionHistory, [id |-> QuestionBank[currentQuestion].id,
                                              status |-> status])
                /\ questionHistory' =
                      Append(questionHistory, [id |-> QuestionBank[currentQuestion].id,
                                               status |-> status])
                /\ status = "skipped" <=> answerText'.shown = "answer"
                /\ status = "correct" <=>
                      (answerText'.shown = "judged" /\ answerText'.isCorrect)
                /\ status = "incorrect" <=>
                      (answerText'.shown = "judged" /\ ~answerText'.isCorrect)
       /\ (answerText' # answerText /\ answerText'.shown # "placeholder")
             => Len(sessionHistory') = Len(sessionHistory) + 1]_vars

\* C21 witness: a question judged correct and then one skipped, both entries
\* in both sequences.
C21_Witness ==
    /\ Len(sessionHistory) = 2
    /\ sessionHistory[1].status = "correct"
    /\ sessionHistory[2].status = "skipped"
    /\ questionHistory = sessionHistory

\* C22: a step that starts a question leaves the revealer Revealing: the
\* cursor at 0, the sink empty, not paused, no answer input, and the timer of
\* the new reveal the one live timer, with an empty buffer.
C22_StartResets ==
    [][questionsPracticed' # questionsPracticed
          => /\ currentQuestion' # NoQuestion
             /\ currentCharIndex' = 0
             /\ sink' = << >>
             /\ ~isPaused'
             /\ ~answerInputShown'
             /\ ~completed' /\ ~interrupted' /\ ~stopped'
             /\ streamingInterval' \in DOMAIN timers'
             /\ timers'[streamingInterval'].displayText = << >>
             /\ timers'[streamingInterval'].q = currentQuestion']_vars

\* C22 witness: a second question has just been started while the first was
\* Revealing or Paused.
C22_Witness ==
    /\ questionsPracticed = 2
    /\ prior
    /\ currentCharIndex = 0
    /\ sink = << >>
    /\ ~isPaused

\* C25: once a question has been judged, no step before the next question is
\* started records another 'correct' or 'incorrect' entry.
C25_JudgedOncePerQuestion ==
    [][(answerText.shown = "judged" /\ SameReveal
           /\ Len(sessionHistory') > Len(sessionHistory))
          => sessionHistory'[Len(sessionHistory')].status = "skipped"]_vars

\* C27: state.answerInputShown is true exactly when the answer-input section
\* is in the page.
C27_FlagMatchesSection == answerInputShown <=> inputSections > 0

\* C24: a non-blank answer whose normalized form is empty is never judged
\* correct against an answer field whose normalized form is not empty, at any
\* tolerance above 0.
C24_EmptyNormalizedNeverCorrect ==
    (/\ returned.called = "checkAnswer"
     /\ Trim(userAnswer) # << >>
     /\ normalizeAnswer(Trim(userAnswer)) = << >>
     /\ normalizeAnswer(correctAnswer) # << >>
     /\ tolerance > 0)
        => returned.value = FALSE

\* An answer matches a normalized text exactly: equal, containing or
\* contained.
ExactMatch(normUser, normText) ==
    \/ normUser = normText
    \/ Contains(normText, normUser)
    \/ Contains(normUser, normText)

\* C26: an answer judged correct at a tolerance is judged correct at every
\* lower tolerance; at tolerance 0 every non-blank answer is judged correct;
\* at tolerance 100 an answer is judged correct only when its normalized form
\* equals, contains or is contained in that of a candidate or of the field.
C26_MonotoneInTolerance ==
    (returned.called = "checkAnswer" /\ Trim(userAnswer) # << >>)
        => /\ returned.value = TRUE
                 => \A lower \in CheckTolerances :
                       lower < tolerance
                          => IsCorrect(Trim(userAnswer), correctAnswer, lower)
           /\ tolerance = 0 => returned.value = TRUE
           /\ (tolerance = 100 /\ returned.value = TRUE)
                 => LET candidates == extractAcceptableAnswers(correctAnswer)
                        normUser == normalizeAnswer(Trim(userAnswer))
                    IN  \/ \E i \in 1..Len(candidates) :
                               ExactMatch(normUser, normalizeAnswer(candidates[i]))
                        \/ ExactMatch(normUser, normalizeAnswer(correctAnswer))

\* C26 witness: an answer judged correct at tolerance 80 that tolerance 100
\* rejects, so that the tolerance decided the judgement.
C26_Witness ==
    /\ returned.called = "checkAnswer"
    /\ Trim(userAnswer) # << >>
    /\ tolerance = 80
    /\ returned.value = TRUE
    /\ ~IsCorrect(Trim(userAnswer), correctAnswer, 100)

\* The greatest level whose threshold is at most x, 1 when there is none.
GreatestLevel(x) ==
    LET reached == { l \in 1..LevelCap : getXPForLevel(l) <= x }
    IN  IF reached = {} THEN 1
        ELSE CHOOSE l \in reached : \A m \in reached : m <= l

\* The level of every argument, as getLevelFromXP computes it.
LevelOf == [x \in XpValues |-> getLevelFromXP(x)]

\* C30: the level of an XP is between 1 and 100, at least the level of every
\* smaller XP, and the greatest level whose threshold the XP has reached (1
\* when none); each threshold is below the threshold of the next level.
C30_LevelOfXp ==
    /\ returned.called = "getLevelFromXP"
          => /\ returned.value \in 1..LevelCap
             /\ \A smaller \in XpValues :
                   smaller <= xp => LevelOf[smaller] <= returned.value
             /\ xp > 0 => getLevelFromXP(xp - 1) <= returned.value
             /\ returned.value = GreatestLevel(xp)
    /\ (returned.called = "getXPForLevel" /\ level < LevelCap)
          => returned.value < getXPForLevel(level + 1)

\* C30 witness: 1200 XP, the threshold of level 11, has been given level 11.
C30_Witness ==
    /\ returned.called = "getLevelFromXP"
    /\ xp = 1200
    /\ returned.value = 11

Range(seq) == { seq[i] : i \in DOMAIN seq }

\* C28: once a loadUserHistory call and an addToHistory call that was in
\* progress during it have both finished, the entry of that addToHistory
\* call is in state.questionHistory.
C28_EntrySurvivesConcurrentLoad ==
    load.pc = "idle"
       => \A i \in DOMAIN tasks :
             (tasks[i].pc = "done" /\ tasks[i].entry.timestamp \in load.concurrent)
                => tasks[i].entry \in Range(questionHistory)

\* The number of correct answers at the end of calls.
RECURSIVE TrailingCorrect(_)
TrailingCorrect(calls) ==
    IF calls = << >> \/ ~calls[Len(calls)] THEN 0
    ELSE 1 + TrailingCorrect(SubSeq(calls, 1, Len(calls) - 1))

Visible(s) ==
    LET Decode(c) == IF c = LT THEN "<" ELSE IF c = GT THEN ">" ELSE c
        shown == StripTags(Emitted(s))
    IN  [i \in DOMAIN shown |-> Decode(shown[i])]

\* The k-th reveal is left alone: not interrupted, not stopped, and not
\* paused unless it has completed.
Undisturbed(k) ==
    /\ questionsPracticed = k
    /\ currentQuestion # NoQuestion
    /\ ~interrupted
    /\ ~stopped
    /\ completed \/ ~isPaused

\* C23: a reveal that from some moment on is neither paused, interrupted,
\* stopped nor restarted eventually completes with a sink that shows the
\* visible characters of its text.
C23_RevealCompletes ==
    \A k \in 1..MaxPracticed :
        <>[]Undisturbed(k)
           => <>(/\ questionsPracticed = k
                 /\ currentQuestion # NoQuestion
                 /\ completed
                 /\ Visible(sink) = StripTags(Text(currentQuestion)))

\* C23 witness: a reveal paused inside the <b> element and resumed has
\* completed.
C23_Witness ==
    /\ currentQuestion = 1
    /\ completed
    /\ ~interrupted
    /\ ~stopped
    /\ sink # SetInnerHTML(Text(currentQuestion))
    /\ Visible(sink) = StripTags(Text(currentQuestion))

====
